---- MODULE Spec2Model ----
(***************************************************************************)
(* Model of notify.py, a voice notification hook: one event is read from   *)
(* standard input, resolved to a message through configurable templates,   *)
(* synthesized to a temporary audio file and played back.                  *)
(*                                                                         *)
(* Text is a sequence of one-character strings.  A template placeholder    *)
(* ("{summary}", "{message}") is one element of the sequence, so that      *)
(* str.replace is substitution of that element.  A Python value is a       *)
(* record [k, s, b]: its kind, its text (kind "str") and its truth value   *)
(* (kind "bool").  A call that may raise returns [raised, ret], where      *)
(* raised is "none" or the name of the exception class.                    *)
(***************************************************************************)
EXTENDS Integers, Sequences, FiniteSets, TLC

VARIABLES
    pc,             \* position of the process in __main__ / main / _generate_and_play / play_mp3
    event,          \* main: event (a Python value; kind "map" holds the fields in ev)
    ev,             \* the fields of the event mapping
    cfgFile,        \* what reading config.json did: "unread", "ok" or the exception raised
    config,         \* main: config as returned by load_config
    exc,            \* the exception in flight, "none" if there is none
    exitCode,       \* process exit code, -1 while the process runs
    stderrLines,    \* diagnostic lines printed to sys.stderr, in order
    stderrFails,    \* a write to sys.stderr raises OSError (a full or broken stream)
    debugWrites,    \* appends attempted on debug.log
    resolved,       \* "no" | "returned" | "raised": outcome of resolve_message
    message,        \* main: message
    transcriptReads,\* calls of _extract_summary (opens of the transcript log)
    tmpCreated,     \* temporary files created by NamedTemporaryFile
    tmpExists,      \* the temporary file is on disk
    unlinkLog,      \* outcomes of os.unlink(tmp_path), in order
    synth,          \* "idle" | "running" | "ok" | "failed": comm.save
    synthCalls,     \* calls of comm.save
    play,           \* "idle" | "playing" | "finished" | "failed": play_mp3
    playCalls,      \* calls of play_mp3
    mciOpen,        \* the MCI device voice_notif holds the file open
    tText, tMax, tOut, tDone,   \* _truncate: arguments, result, applied
    sFile, sOut, sDone          \* _extract_summary: transcript, result, applied

vars == << pc, event, ev, cfgFile, config, exc, exitCode, stderrFails, stderrLines, debugWrites,
           resolved, message, transcriptReads, tmpCreated, tmpExists, unlinkLog,
           synth, synthCalls, play, playCalls, mciOpen,
           tText, tMax, tOut, tDone, sFile, sOut, sDone >>

mainVars == << pc, event, ev, cfgFile, config, exc, exitCode, stderrFails, stderrLines, debugWrites,
               resolved, message, transcriptReads, tmpCreated, tmpExists, unlinkLog,
               synth, synthCalls, play, playCalls, mciOpen >>
truncVars == << tText, tMax, tOut, tDone >>
sumVars == << sFile, sOut, sDone >>

(***************************************************************************)
(* Bounds of the model.                                                    *)
(***************************************************************************)
SmallMax == 4        \* the small max_len under which _truncate is checked on all texts
MaxExtra == 2        \* texts are up to max_len + MaxExtra long
MaxLines == 2        \* records of a transcript log
MaxBlocks == 2       \* content blocks of one assistant record
MaxPad == 2          \* padding lengths of the long texts are 0..MaxPad

(***************************************************************************)
(* Program constants.                                                      *)
(***************************************************************************)
MAX_MESSAGE_LENGTH == 200
SUMMARY_CAP == 150

(***************************************************************************)
(* Python values.                                                          *)
(***************************************************************************)
Absent == [k |-> "absent", s |-> << >>, b |-> FALSE]
None == [k |-> "none", s |-> << >>, b |-> FALSE]
Str(x) == [k |-> "str", s |-> x, b |-> FALSE]
Bool(x) == [k |-> "bool", s |-> << >>, b |-> x]
Num == [k |-> "num", s |-> << >>, b |-> TRUE]    \* a nonzero number
Map == [k |-> "map", s |-> << >>, b |-> TRUE]    \* a mapping (its fields are held apart)
List == [k |-> "list", s |-> << >>, b |-> TRUE]  \* a non-empty JSON array

\* bool(v)
Truthy(v) ==
    CASE v.k = "str" -> v.s # << >>
      [] v.k = "bool" -> v.b
      [] v.k \in {"num", "map", "list"} -> TRUE
      [] OTHER -> FALSE

\* d.get(key, default) where v is the entry under key, Absent if there is none
Get(v, default) == IF v.k = "absent" THEN default ELSE v

Ok(v) == [raised |-> "none", ret |-> v]
Raise(e) == [raised |-> e, ret |-> None]

(***************************************************************************)
(* str methods.  Indices are Python's (0-based, -1 for "not found").       *)
(***************************************************************************)
Rep(c, n) == [i \in 1..n |-> c]

\* A character outside ASCII, or a control character TLA+ has no escape for, is
\* the element "U+" followed by its code point.

\* the characters str.strip() and str.rstrip() remove: those with isspace()
Whitespace ==
    { " ", "\t", "\n", "\r", "\f", "U+000B", "U+001C", "U+001D", "U+001E", "U+001F",
      "U+0085", "U+00A0", "U+1680", "U+2000", "U+2001", "U+2002", "U+2003", "U+2004",
      "U+2005", "U+2006", "U+2007", "U+2008", "U+2009", "U+200A", "U+2028", "U+2029",
      "U+202F", "U+205F", "U+3000" }

\* the characters str.splitlines() cuts at ("\r\n" counting as one)
LineBreaks ==
    { "\n", "\r", "\f", "U+000B", "U+001C", "U+001D", "U+001E", "U+0085", "U+2028",
      "U+2029" }

IsSpace(c) == c \in Whitespace

Min(S) == CHOOSE i \in S : \A j \in S : i <= j
Max(S) == CHOOSE i \in S : \A j \in S : i >= j

\* s.find(c)
find(s, c) ==
    LET P == {i \in 1..Len(s) : s[i] = c}
    IN  IF P = {} THEN -1 ELSE Min(P) - 1

\* s.rfind(c)
rfind(s, c) ==
    LET P == {i \in 1..Len(s) : s[i] = c}
    IN  IF P = {} THEN -1 ELSE Max(P) - 1

\* s[:n], n >= 0
Prefix(s, n) == SubSeq(s, 1, IF n < Len(s) THEN n ELSE Len(s))

\* s.rstrip()
rstrip(s) ==
    LET P == {i \in 1..Len(s) : ~IsSpace(s[i])}
    IN  IF P = {} THEN << >> ELSE SubSeq(s, 1, Max(P))

\* s.strip()
strip(s) ==
    LET P == {i \in 1..Len(s) : ~IsSpace(s[i])}
    IN  IF P = {} THEN << >> ELSE SubSeq(s, Min(P), Max(P))

\* s.splitlines()
RECURSIVE splitlines(_)
splitlines(s) ==
    LET P == {i \in 1..Len(s) : s[i] \in LineBreaks}
    IN  IF s = << >> THEN << >>
        ELSE IF P = {} THEN << s >>
        ELSE LET i == Min(P)
                 n == IF s[i] = "\r" /\ i < Len(s) /\ s[i + 1] = "\n" THEN 2 ELSE 1
             IN  << SubSeq(s, 1, i - 1) >> \o splitlines(SubSeq(s, i + n, Len(s)))

\* template.replace(ph, v): every occurrence of the placeholder ph becomes v
RECURSIVE replace(_, _, _)
replace(t, ph, v) ==
    IF t = << >> THEN << >>
    ELSE (IF Head(t) = ph THEN v ELSE << Head(t) >>) \o replace(Tail(t), ph, v)

(***************************************************************************)
(* _truncate(text, max_len)                                                *)
(***************************************************************************)
\* _truncate with the prefix cut one character late: text[: max_len + 1]
TruncateLateCut(text, max_len) ==
    IF Len(text) <= max_len THEN text
    ELSE LET cut == Prefix(text, max_len + 1)
             last_period == rfind(cut, ".")
         IN  IF last_period > max_len \div 2
             THEN Prefix(cut, last_period + 1)
             ELSE rstrip(cut) \o << "." >>

_truncate(text, max_len) ==
    IF Len(text) <= max_len THEN text
    ELSE LET cut == Prefix(text, max_len)
             last_period == rfind(cut, ".")
         IN  IF last_period > max_len \div 2
             THEN Prefix(cut, last_period + 1)
             ELSE rstrip(cut) \o << "." >>

(***************************************************************************)
(* _extract_summary(transcript_path).  The transcript log is the file at   *)
(* the path: [k, lines], k "missing" (open raises FileNotFoundError),      *)
(* "nulpath" (a NUL in the path: open raises ValueError), "undecodable"    *)
(* (bytes that are not UTF-8) or "lines".  A line is                       *)
(* [k, msg, content, blocks]:                                              *)
(*   k        "blank" | "badjson" | "bigint" | "deep" | "nonobject" |      *)
(*            "other" | "assistant"; "bigint" is an integer literal over   *)
(*            the digit limit of int (json.loads raises ValueError) and    *)
(*            "deep" a nesting over the recursion limit (RecursionError)   *)
(*   msg      the "message" entry: "absent" | "nondict" | "dict"           *)
(*   content  its "content" entry: "absent" | "noniter" | "list"           *)
(*   blocks   the content list, each block [k, text] with                  *)
(*            k "nondict" | "other" | "text" and text the "text" entry     *)
(***************************************************************************)
Caught == {"OSError", "JSONDecodeError", "KeyError"}    \* the except clause

\* for block in message.get("content", []): ... last_text = block["text"]
RECURSIVE ScanBlocks(_, _)
ScanBlocks(blocks, last_text) ==
    IF blocks = << >> THEN Ok(last_text)
    ELSE LET block == Head(blocks)
         IN  CASE block.k = "nondict" -> Raise("AttributeError")
               [] block.k = "other" -> ScanBlocks(Tail(blocks), last_text)
               [] block.k = "text" ->
                    IF block.text.k = "absent" THEN Raise("KeyError")
                    ELSE ScanBlocks(Tail(blocks), block.text)

\* the body of "for line in f" for one line
ScanLine(line, last_text) ==
    CASE line.k = "blank" -> Ok(last_text)
      [] line.k = "badjson" -> Raise("JSONDecodeError")
      [] line.k = "bigint" -> Raise("ValueError")
      [] line.k = "deep" -> Raise("RecursionError")
      [] line.k = "nonobject" -> Raise("AttributeError")
      [] line.k = "other" -> Ok(last_text)
      [] line.k = "assistant" ->
           CASE line.msg = "absent" -> Ok(last_text)
             [] line.msg = "nondict" -> Raise("AttributeError")
             [] line.msg = "dict" ->
                  CASE line.content = "absent" -> Ok(last_text)
                    [] line.content = "noniter" -> Raise("TypeError")
                    [] line.content = "list" -> ScanBlocks(line.blocks, last_text)

\* for line in f: ...
RECURSIVE ScanLines(_, _)
ScanLines(lines, last_text) ==
    IF lines = << >> THEN Ok(last_text)
    ELSE LET r == ScanLine(Head(lines), last_text)
         IN  IF r.raised # "none" THEN r ELSE ScanLines(Tail(lines), r.ret)

\* with open(transcript_path, encoding="utf-8") as f: for line in f: ...
ScanFile(file) ==
    CASE file.k = "missing" -> Raise("OSError")
      [] file.k = "nulpath" -> Raise("ValueError")
      [] file.k = "undecodable" -> Raise("UnicodeDecodeError")
      [] file.k = "lines" -> ScanLines(file.lines, Str(<< >>))

\* lines 104-110: the last non-empty line of last_text, trimmed
Snippet(last_text) ==
    LET stripped == strip(last_text)
        all == splitlines(stripped)
        lines == [i \in 1..Len(SelectSeq(all, LAMBDA l : strip(l) # << >>)) |->
                    strip(SelectSeq(all, LAMBDA l : strip(l) # << >>)[i])]
    IN  IF lines # << >> THEN lines[Len(lines)] ELSE stripped

TrimSnippet(snippet) ==
    LET period == find(snippet, ".")
    IN  IF 0 < period /\ period < SUMMARY_CAP
        THEN Prefix(snippet, period + 1)
        ELSE Prefix(snippet, SUMMARY_CAP)

_extract_summary(file) ==
    LET scan == ScanFile(file)
    IN  IF scan.raised \in Caught THEN Ok(Str(<< >>))
        ELSE IF scan.raised # "none" THEN scan
        ELSE IF ~Truthy(scan.ret) THEN Ok(Str(<< >>))
        ELSE IF scan.ret.k # "str" THEN Raise("AttributeError")
        ELSE Ok(Str(TrimSnippet(Snippet(scan.ret.s))))

(***************************************************************************)
(* Config.  A configuration is [k, enabled, debug, messages]: k is "map"   *)
(* or "list" (config.json parses to something that is no mapping),         *)
(* messages is [k, m] with k "absent" | "map" | "nonmap" and m the mapping *)
(* from key to template.                                                   *)
(***************************************************************************)
DEFAULT_MESSAGES ==
    [ prompt_submit |-> Str(<< "O", "n", " ", "i", "t", "." >>),
      stop |-> Str(<< "D", "o", "n", "e", ".", " ", "{summary}" >>),
      notification_permission_prompt |->
          Str(<< "N", "e", "e", "d", " ", "y", "o", "u", "r", " ", "p", "e", "r", "m",
                 "i", "s", "s", "i", "o", "n", ".", " ", "{message}" >>),
      notification_idle_prompt |->
          Str(<< "W", "a", "i", "t", "i", "n", "g", " ", "f", "o", "r", " ", "y", "o",
                 "u", "r", " ", "i", "n", "p", "u", "t", "." >>),
      notification_default |-> Str(<< "{message}" >>) ]

NoMapping == [ none |-> Absent ]

DEFAULT_CONFIG ==
    [ k |-> "map", enabled |-> Bool(TRUE), debug |-> Absent,
      messages |-> [k |-> "map", m |-> DEFAULT_MESSAGES] ]

\* the value of main's config before load_config has returned
NoConfig ==
    [ k |-> "unset", enabled |-> Absent, debug |-> Absent,
      messages |-> [k |-> "absent", m |-> NoMapping] ]

\* messages.get(key), Absent if there is no such key
Lookup(m, key) == IF key \in DOMAIN m THEN m[key] ELSE Absent

LoadCaught == {"FileNotFoundError", "JSONDecodeError"}    \* the except clause

\* load_config(), file being what open/json.load of config.json do:
\* [k, cfg] with k "ok" (json.load returns cfg) or the exception raised.
\* The except clause prints a diagnostic to sys.stderr before it returns the
\* defaults; printFails: that print raises OSError, which leaves load_config.
load_config(file, printFails) ==
    IF file.k = "ok"
    THEN [raised |-> "none", ret |-> file.cfg, diag |-> << >>]
    ELSE IF file.k \in LoadCaught
    THEN IF printFails
         THEN [raised |-> "OSError", ret |-> NoConfig, diag |-> << >>]
         ELSE [raised |-> "none", ret |-> DEFAULT_CONFIG,
               diag |-> << "Config error, using defaults" >>]
    ELSE [raised |-> file.k, ret |-> NoConfig, diag |-> << >>]

(***************************************************************************)
(* resolve_message(event, config).  e is the event value, f its fields     *)
(* [hook_event_name, stop_hook_active, transcript_summary,                 *)
(* transcript_path, notification_type, message] (the two names are         *)
(* strings, "" when absent, which is the default the code gives them), and *)
(* file the transcript log at transcript_path.  The result is              *)
(* [raised, ret, reads], reads counting the calls of _extract_summary.     *)
(***************************************************************************)
Res(r, n) == [raised |-> r.raised, ret |-> r.ret, reads |-> n]

\* template.replace(ph, value) followed by _truncate
Render(template, ph, value, n) ==
    IF template.k # "str" THEN Res(Raise("AttributeError"), n)
    ELSE IF value.k # "str" THEN Res(Raise("TypeError"), n)
    ELSE Res(Ok(Str(_truncate(replace(template.s, ph, value.s), MAX_MESSAGE_LENGTH))), n)

\* lines 126-136
ResolveStop(f, messages, file) ==
    LET template == Get(Lookup(messages.m, "stop"),
                        Str(<< "D", "o", "n", "e", ".", " ", "{summary}" >>))
        own == Get(f.transcript_summary, Str(<< >>))
        transcript_path == Get(f.transcript_path, Str(<< >>))
        read == ~Truthy(own) /\ Truthy(transcript_path)
        n == IF read THEN 1 ELSE 0
        got == IF read THEN _extract_summary(file) ELSE Ok(own)
    IN  IF got.raised # "none" THEN Res(got, n)
        ELSE IF ~Truthy(got.ret)
        THEN IF template.k # "str" THEN Res(Raise("AttributeError"), n)
             ELSE Res(Ok(Str(_truncate(strip(replace(template.s, "{summary}", << >>)),
                                       MAX_MESSAGE_LENGTH))), n)
        ELSE Render(template, "{summary}", got.ret, n)

\* lines 139-144
ResolveNotification(f, messages) ==
    LET key == "notification_" \o f.notification_type
        template == Get(Lookup(messages.m, key),
                        Get(Lookup(messages.m, "notification_default"),
                            Str(<< "{message}" >>)))
        raw_message == Get(f.message,
                           Str(<< "N", "o", "t", "i", "f", "i", "c", "a", "t", "i", "o", "n" >>))
    IN  Render(template, "{message}", raw_message, 0)

\* resolve_message without the re-entry guard
StopActiveIgnored(f) == FALSE

\* if event.get("stop_hook_active", False): return None
StopActive(f) == Truthy(Get(f.stop_hook_active, Bool(FALSE)))

resolve_message(e, f, cfg, file) ==
    LET messages == IF cfg.messages.k = "absent"
                    THEN [k |-> "map", m |-> DEFAULT_MESSAGES]
                    ELSE cfg.messages
    IN  IF e.k # "map" \/ cfg.k # "map" THEN Res(Raise("AttributeError"), 0)
        ELSE CASE f.hook_event_name = "UserPromptSubmit" ->
                    IF messages.k # "map" THEN Res(Raise("AttributeError"), 0)
                    ELSE Res(Ok(Get(Lookup(messages.m, "prompt_submit"),
                                    Str(<< "O", "n", " ", "i", "t", "." >>))), 0)
               [] f.hook_event_name = "Stop" ->
                    IF StopActive(f) THEN Res(Ok(None), 0)
                    ELSE IF messages.k # "map" THEN Res(Raise("AttributeError"), 0)
                    ELSE ResolveStop(f, messages, file)
               [] f.hook_event_name = "Notification" ->
                    IF messages.k # "map" THEN Res(Raise("AttributeError"), 0)
                    ELSE ResolveNotification(f, messages)
               [] OTHER -> Res(Ok(None), 0)

(***************************************************************************)
(* Inputs.                                                                 *)
(***************************************************************************)
SeqsUpTo(S, n) == UNION { [1..k -> S] : k \in 0..n }

\* the texts a block's "text" entry is drawn from
SummaryTexts ==
    { << >>,
      << " ", "\n", " " >>,
      << "L", "i", "n", "e", " ", "o", "n", "e", ".", "\n", "L", "i", "n", "e", " ", "t", "w", "o", "?" >>,
      << "F", "i", "x", "e", "d", ".", " ", "T", "e", "s", "t", "s", " ", "p", "a", "s", "s" >>,
      << ".", "a", "b" >>,
      << "d", "o", "n", "e", "\n", "\n", " ", " " >>,
      << "a", ".", "\r", "b", "c" >>,
      << "o", "n", "e", "\r", "\n", "t", "w", "o", "\t" >>,
      << "U+00A0", "a", "U+2028", "b", "U+001F", "c", "U+3000", "\f", "U+0085" >>,
      << "a", "\n", "\r", "U+000B", "b", ".", "c", "U+001C", "U+2029" >>,
      Rep("a", SUMMARY_CAP),
      Rep("a", SUMMARY_CAP + 1),
      << "a", "." >> \o Rep("a", SUMMARY_CAP),
      Rep("a", SUMMARY_CAP - 1) \o << ".", "a", "a" >>,
      Rep("a", SUMMARY_CAP) \o << ".", "a", "a" >>,
      << "o", "k", "\n" >> \o Rep("a", SUMMARY_CAP + 1) }

Blocks ==
    { [k |-> "nondict", text |-> Absent],
      [k |-> "other", text |-> Absent],
      [k |-> "text", text |-> Absent],
      [k |-> "text", text |-> Num] }
    \cup { [k |-> "text", text |-> Str(t)] : t \in SummaryTexts }

PlainLines ==
    { [k |-> "blank", msg |-> "absent", content |-> "absent", blocks |-> << >>],
      [k |-> "badjson", msg |-> "absent", content |-> "absent", blocks |-> << >>],
      [k |-> "bigint", msg |-> "absent", content |-> "absent", blocks |-> << >>],
      [k |-> "deep", msg |-> "absent", content |-> "absent", blocks |-> << >>],
      [k |-> "nonobject", msg |-> "absent", content |-> "absent", blocks |-> << >>],
      [k |-> "other", msg |-> "absent", content |-> "absent", blocks |-> << >>],
      [k |-> "assistant", msg |-> "absent", content |-> "absent", blocks |-> << >>],
      [k |-> "assistant", msg |-> "nondict", content |-> "absent", blocks |-> << >>],
      [k |-> "assistant", msg |-> "dict", content |-> "absent", blocks |-> << >>],
      [k |-> "assistant", msg |-> "dict", content |-> "noniter", blocks |-> << >>] }

\* the lines whose content list holds at most n blocks
Lines(n) ==
    PlainLines \cup
    { [k |-> "assistant", msg |-> "dict", content |-> "list", blocks |-> bs] :
        bs \in SeqsUpTo(Blocks, n) }

File(ls) == [k |-> "lines", lines |-> ls]

NoFile == [k |-> "missing", lines |-> << >>]

\* transcript logs of one line (the main flow reads these)
ShortFiles ==
    { NoFile, [k |-> "undecodable", lines |-> << >>], [k |-> "nulpath", lines |-> << >>] }
    \cup { File(ls) : ls \in SeqsUpTo(Lines(1), 1) }

\* transcript logs the summarizer is checked on
TranscriptFiles ==
    ShortFiles
    \cup { File(<< l >>) : l \in Lines(MaxBlocks) }
    \cup { File(ls) : ls \in SeqsUpTo(Lines(1), MaxLines) }

\* texts over a three-letter alphabet, all of them up to a length
SmallTexts == SeqsUpTo({"a", ".", " ", "\t"}, SmallMax + MaxExtra)

\* texts around the limit m: a period at chosen places, blanks and a tail
LongTexts(m) ==
    { Rep("a", a) \o p \o Rep("a", b) \o Rep(" ", w) \o Rep("a", c) :
        a \in {0, m \div 2 - 1, m \div 2, m \div 2 + 1, m - 2, m - 1, m},
        p \in {<< >>, << "." >>},
        b \in (0..MaxPad) \cup {m \div 2},
        w \in (0..MaxPad) \cup {m},
        c \in 0..MaxPad }

TruncInputs ==
    { << t, SmallMax >> : t \in SmallTexts }
    \cup { << t, MAX_MESSAGE_LENGTH >> : t \in LongTexts(MAX_MESSAGE_LENGTH) }

(***************************************************************************)
(* The three specifications share the variables; each leaves the others'   *)
(* at rest.                                                                *)
(***************************************************************************)
NoFields ==
    [ hook_event_name |-> "", stop_hook_active |-> Absent,
      transcript_summary |-> Absent, transcript_path |-> Absent,
      notification_type |-> "", message |-> Absent ]

MainRest(p) ==
    /\ pc = p
    /\ event = None
    /\ ev = NoFields
    /\ cfgFile = "unread"
    /\ config = NoConfig
    /\ exc = "none"
    /\ exitCode = -1
    /\ stderrFails = FALSE
    /\ stderrLines = << >>
    /\ debugWrites = 0
    /\ resolved = "no"
    /\ message = None
    /\ transcriptReads = 0
    /\ tmpCreated = 0
    /\ tmpExists = FALSE
    /\ unlinkLog = << >>
    /\ synth = "idle"
    /\ synthCalls = 0
    /\ play = "idle"
    /\ playCalls = 0
    /\ mciOpen = FALSE

TruncRest ==
    /\ tText = << >>
    /\ tMax = 0
    /\ tOut = << >>
    /\ tDone = FALSE

SumRest ==
    /\ sFile = NoFile
    /\ sOut = Ok(None)
    /\ sDone = FALSE

(***************************************************************************)
(* _truncate applied to every input.                                       *)
(***************************************************************************)
TruncInit ==
    /\ MainRest("off")
    /\ SumRest
    /\ \E i \in TruncInputs : tText = i[1] /\ tMax = i[2]
    /\ tOut = << >>
    /\ tDone = FALSE

ApplyTruncate ==
    /\ ~tDone
    /\ tOut' = _truncate(tText, tMax)
    /\ tDone' = TRUE
    /\ UNCHANGED << tText, tMax >>
    /\ UNCHANGED mainVars
    /\ UNCHANGED sumVars

TruncNext == ApplyTruncate

SpecTrunc == TruncInit /\ [][TruncNext]_vars

(***************************************************************************)
(* _extract_summary applied to every transcript log.                       *)
(***************************************************************************)
SumInit ==
    /\ MainRest("off")
    /\ TruncRest
    /\ sFile \in TranscriptFiles
    /\ sOut = Ok(None)
    /\ sDone = FALSE

ApplyExtractSummary ==
    /\ ~sDone
    /\ sOut' = _extract_summary(sFile)
    /\ sDone' = TRUE
    /\ UNCHANGED sFile
    /\ UNCHANGED mainVars
    /\ UNCHANGED truncVars

SumNext == ApplyExtractSummary

SpecSummary == SumInit /\ [][SumNext]_vars

(***************************************************************************)
(* The process: __main__, main, speak, _generate_and_play, play_mp3.       *)
(***************************************************************************)
LongNoPeriod == Rep("a", MAX_MESSAGE_LENGTH + 50)
LongWithPeriod == Rep("a", MAX_MESSAGE_LENGTH - 20) \o << "." >> \o Rep("a", 60)

StopEvents ==
    { [NoFields EXCEPT !.hook_event_name = "Stop", !.stop_hook_active = a,
                       !.transcript_summary = t, !.transcript_path = p] :
        a \in {Absent, Bool(TRUE), Bool(FALSE)},
        t \in {Absent, Str(<< >>), Str(<< "A", "l", "l", " ", "d", "o", "n", "e" >>),
               Str(LongWithPeriod), Num},
        p \in {Absent, Str(<< >>), Str(<< "p" >>)} }

NotificationEvents ==
    { [NoFields EXCEPT !.hook_event_name = "Notification", !.notification_type = n,
                       !.message = m] :
        n \in {"", "idle_prompt", "permission_prompt", "unknown_xyz"},
        m \in {Absent, Str(<< "h", "i" >>), Str(LongNoPeriod), Num} }

Events ==
    { [NoFields EXCEPT !.hook_event_name = "UserPromptSubmit"],
      [NoFields EXCEPT !.hook_event_name = "PreToolUse"] }
    \cup StopEvents \cup NotificationEvents

\* what sys.stdin.read() and json.loads give: [k, e, f] with k "empty"
\* (nothing but whitespace), "json" (json.loads returns e, f) or the exception
\* raised: JSONDecodeError (malformed text), UnicodeDecodeError (bytes that
\* are not UTF-8), ValueError (an integer literal over the digit limit of
\* int), RecursionError (nesting over the recursion limit)
StdinInputs ==
    { [k |-> "empty", e |-> Map, f |-> NoFields],
      [k |-> "JSONDecodeError", e |-> None, f |-> NoFields],
      [k |-> "UnicodeDecodeError", e |-> None, f |-> NoFields],
      [k |-> "ValueError", e |-> None, f |-> NoFields],
      [k |-> "RecursionError", e |-> None, f |-> NoFields],
      [k |-> "json", e |-> List, f |-> NoFields] }
    \cup { [k |-> "json", e |-> Map, f |-> f] : f \in Events }

CustomMessages ==
    [ prompt_submit |-> Str(<< >>),
      stop |-> Str(<< "F", "i", "n", "i", "s", "h", "e", "d", " ", "{summary}" >>),
      notification_idle_prompt |-> Str(<< "I", "d", "l", "e", "." >>) ]

Configs ==
    { [k |-> "list", enabled |-> Absent, debug |-> Absent,
       messages |-> [k |-> "absent", m |-> NoMapping]] }
    \cup { [k |-> "map", enabled |-> en, debug |-> d, messages |-> ms] :
             en \in {Absent, Bool(TRUE), Bool(FALSE)},
             d \in {Absent, Bool(TRUE)},
             ms \in { [k |-> "absent", m |-> NoMapping],
                      [k |-> "map", m |-> DEFAULT_MESSAGES],
                      [k |-> "map", m |-> CustomMessages],
                      [k |-> "map", m |-> NoMapping],
                      [k |-> "nonmap", m |-> NoMapping] } }

\* what open/json.load of config.json do
ConfigFiles ==
    { [k |-> x, cfg |-> NoConfig] :
        x \in {"FileNotFoundError", "JSONDecodeError", "PermissionError",
               "UnicodeDecodeError", "ValueError", "RecursionError"} }
    \cup { [k |-> "ok", cfg |-> c] : c \in Configs }

\* the exit codes the process can end with.  main returned: the interpreter
\* ends with 0.  The handler of "except Exception" ran (caught): it prints a
\* line to sys.stderr and then calls sys.exit(0); when the print raises
\* (printFails), sys.exit(0) is not reached and the OSError is unhandled: the
\* interpreter ends with 1, or with 120 when sys.stderr is buffered and the
\* flush of the unwritten text at shutdown fails as well.
ExitStatus(caught, printFails) == IF caught /\ printFails THEN {1, 120} ELSE {0}

\* main without the kill switch
EnabledIgnored(cfg) == TRUE

\* if not config.get("enabled", True): return
Enabled(cfg) == Truthy(Get(cfg.enabled, Bool(TRUE)))

\* a synthesis error swallowed: playback goes ahead
AfterSynthSwallowed(ok) == "play"

\* where control goes after "await comm.save(tmp_path)"
AfterSynth(ok) == IF ok THEN "play" ELSE "finally"

\* an OSError of os.unlink escaping the finally block
AfterFinallyEscalating(e, unlinkFails) == IF unlinkFails THEN "OSError" ELSE e

\* the exception in flight after the finally block, e being the one before it
AfterFinally(e, unlinkFails) == e

MainInit ==
    /\ pc = "stdin"
    /\ stderrFails \in BOOLEAN
    /\ event = None
    /\ ev = NoFields
    /\ cfgFile = "unread"
    /\ config = NoConfig
    /\ exc = "none"
    /\ exitCode = -1
    /\ stderrLines = << >>
    /\ debugWrites = 0
    /\ resolved = "no"
    /\ message = None
    /\ transcriptReads = 0
    /\ tmpCreated = 0
    /\ tmpExists = FALSE
    /\ unlinkLog = << >>
    /\ synth = "idle"
    /\ synthCalls = 0
    /\ play = "idle"
    /\ playCalls = 0
    /\ mciOpen = FALSE
    /\ TruncRest
    /\ SumRest

\* raw = sys.stdin.read(); event = json.loads(raw) if raw.strip() else {}
ReadStdin ==
    /\ pc = "stdin"
    /\ \E in \in StdinInputs :
         IF in.k \notin {"empty", "json"}
         THEN /\ exc' = in.k
              /\ pc' = "except"
              /\ UNCHANGED << event, ev >>
         ELSE /\ event' = in.e
              /\ ev' = in.f
              /\ pc' = "load_config"
              /\ UNCHANGED exc
    /\ UNCHANGED << cfgFile, config, exitCode, stderrFails, stderrLines, debugWrites, resolved,
                    message, transcriptReads, tmpCreated, tmpExists, unlinkLog,
                    synth, synthCalls, play, playCalls, mciOpen >>
    /\ UNCHANGED truncVars
    /\ UNCHANGED sumVars

\* config = load_config()
LoadConfig ==
    /\ pc = "load_config"
    /\ \E file \in ConfigFiles :
         LET r == load_config(file, stderrFails)
         IN  /\ cfgFile' = file.k
             /\ stderrLines' = stderrLines \o r.diag
             /\ IF r.raised # "none"
                THEN /\ exc' = r.raised
                     /\ pc' = "except"
                     /\ UNCHANGED config
                ELSE /\ config' = r.ret
                     /\ pc' = "debug"
                     /\ UNCHANGED exc
    /\ UNCHANGED << event, ev, exitCode, stderrFails, debugWrites, resolved,
                    message, transcriptReads, tmpCreated, tmpExists, unlinkLog,
                    synth, synthCalls, play, playCalls, mciOpen >>
    /\ UNCHANGED truncVars
    /\ UNCHANGED sumVars

\* if config.get("debug", False): _debug_log(event)
DebugLog ==
    /\ pc = "debug"
    /\ IF config.k # "map"
       THEN /\ exc' = "AttributeError"
            /\ pc' = "except"
            /\ UNCHANGED debugWrites
       ELSE /\ pc' = "enabled"
            /\ UNCHANGED exc
            /\ IF Truthy(Get(config.debug, Bool(FALSE)))
               THEN \E oserror \in BOOLEAN :
                        debugWrites' = IF oserror THEN debugWrites ELSE debugWrites + 1
               ELSE UNCHANGED debugWrites
    /\ UNCHANGED << event, ev, cfgFile, config, exitCode, stderrFails, stderrLines, resolved,
                    message, transcriptReads, tmpCreated, tmpExists, unlinkLog,
                    synth, synthCalls, play, playCalls, mciOpen >>
    /\ UNCHANGED truncVars
    /\ UNCHANGED sumVars

\* if not config.get("enabled", True): return
CheckEnabled ==
    /\ pc = "enabled"
    /\ pc' = IF Enabled(config) THEN "resolve" ELSE "return"
    /\ UNCHANGED << event, ev, cfgFile, config, exc, exitCode, stderrFails, stderrLines, debugWrites,
                    resolved, message, transcriptReads, tmpCreated, tmpExists, unlinkLog,
                    synth, synthCalls, play, playCalls, mciOpen >>
    /\ UNCHANGED truncVars
    /\ UNCHANGED sumVars

\* message = resolve_message(event, config); if message: speak(message, config)
Resolve ==
    /\ pc = "resolve"
    /\ \E file \in ShortFiles :
         LET r == resolve_message(event, ev, config, file)
         IN  /\ transcriptReads' = transcriptReads + r.reads
             /\ IF r.raised # "none"
                THEN /\ resolved' = "raised"
                     /\ exc' = r.raised
                     /\ pc' = "except"
                     /\ UNCHANGED message
                ELSE /\ resolved' = "returned"
                     /\ message' = r.ret
                     /\ pc' = IF Truthy(r.ret) THEN "import" ELSE "return"
                     /\ UNCHANGED exc
    /\ UNCHANGED << event, ev, cfgFile, config, exitCode, stderrFails, stderrLines, debugWrites,
                    tmpCreated, tmpExists, unlinkLog,
                    synth, synthCalls, play, playCalls, mciOpen >>
    /\ UNCHANGED truncVars
    /\ UNCHANGED sumVars

\* _generate_and_play: import edge_tts
ImportEdgeTts ==
    /\ pc = "import"
    /\ \E importerror \in BOOLEAN :
         IF importerror
         THEN exc' = "ImportError" /\ pc' = "except"
         ELSE pc' = "mktemp" /\ UNCHANGED exc
    /\ UNCHANGED << event, ev, cfgFile, config, exitCode, stderrFails, stderrLines, debugWrites,
                    resolved, message, transcriptReads, tmpCreated, tmpExists, unlinkLog,
                    synth, synthCalls, play, playCalls, mciOpen >>
    /\ UNCHANGED truncVars
    /\ UNCHANGED sumVars

\* tmp = tempfile.NamedTemporaryFile(suffix=".mp3", delete=False); tmp.close()
CreateTmp ==
    /\ pc = "mktemp"
    /\ \E oserror \in BOOLEAN :
         IF oserror
         THEN /\ exc' = "OSError"
              /\ pc' = "except"
              /\ UNCHANGED << tmpCreated, tmpExists >>
         ELSE /\ tmpCreated' = tmpCreated + 1
              /\ tmpExists' = TRUE
              /\ pc' = "communicate"
              /\ UNCHANGED exc
    /\ UNCHANGED << event, ev, cfgFile, config, exitCode, stderrFails, stderrLines, debugWrites,
                    resolved, message, transcriptReads, unlinkLog,
                    synth, synthCalls, play, playCalls, mciOpen >>
    /\ UNCHANGED truncVars
    /\ UNCHANGED sumVars

\* comm = edge_tts.Communicate(...): the constructor validates its arguments
\* and raises ValueError inside the try block, or returns and
\* comm.save(tmp_path) is entered
StartSynth ==
    /\ pc = "communicate"
    /\ \E valueerror \in BOOLEAN :
         IF valueerror
         THEN /\ exc' = "ValueError"
              /\ pc' = "finally"
              /\ UNCHANGED << synth, synthCalls >>
         ELSE /\ synth' = "running"
              /\ synthCalls' = synthCalls + 1
              /\ pc' = "save"
              /\ UNCHANGED exc
    /\ UNCHANGED << event, ev, cfgFile, config, exitCode, stderrFails, stderrLines,
                    debugWrites, resolved, message, transcriptReads, tmpCreated,
                    tmpExists, unlinkLog, play, playCalls, mciOpen >>
    /\ UNCHANGED truncVars
    /\ UNCHANGED sumVars

\* await comm.save(tmp_path) returns or raises
FinishSynth ==
    /\ pc = "save"
    /\ \E ok \in BOOLEAN :
         /\ synth' = IF ok THEN "ok" ELSE "failed"
         /\ exc' = IF ok THEN exc ELSE "SynthError"
         /\ pc' = AfterSynth(ok)
    /\ UNCHANGED << event, ev, cfgFile, config, exitCode, stderrFails, stderrLines, debugWrites,
                    resolved, message, transcriptReads, tmpCreated, tmpExists, unlinkLog,
                    synthCalls, play, playCalls, mciOpen >>
    /\ UNCHANGED truncVars
    /\ UNCHANGED sumVars

\* one _mci(command) of play_mp3: err # 0 raises RuntimeError out of play_mp3
Mci(at, next, opens, closes, first, last) ==
    /\ pc = at
    /\ playCalls' = IF first THEN playCalls + 1 ELSE playCalls
    /\ \E err \in BOOLEAN :
         IF err
         THEN /\ play' = "failed"
              /\ exc' = "RuntimeError"
              /\ pc' = "finally"
              /\ UNCHANGED mciOpen
         ELSE /\ play' = IF last THEN "finished" ELSE "playing"
              /\ mciOpen' = IF opens THEN TRUE ELSE IF closes THEN FALSE ELSE mciOpen
              /\ pc' = next
              /\ UNCHANGED exc
    /\ UNCHANGED << event, ev, cfgFile, config, exitCode, stderrFails, stderrLines, debugWrites,
                    resolved, message, transcriptReads, tmpCreated, tmpExists, unlinkLog,
                    synth, synthCalls >>
    /\ UNCHANGED truncVars
    /\ UNCHANGED sumVars

\* play_mp3(tmp_path) is entered: _mci("Close All")
MciCloseAll == Mci("play", "mci_open", FALSE, TRUE, TRUE, FALSE)

\* _mci('Open "{path}" Type MPEGVideo Alias voice_notif')
MciOpen == Mci("mci_open", "mci_play", TRUE, FALSE, FALSE, FALSE)

\* _mci("Play voice_notif Wait"): returns when the playback is over
MciPlayWait == Mci("mci_play", "mci_close", FALSE, FALSE, FALSE, FALSE)

\* _mci("Close voice_notif"); play_mp3 returns
MciClose == Mci("mci_close", "finally", FALSE, TRUE, FALSE, TRUE)

\* finally: try: os.unlink(tmp_path) except OSError: pass
Unlink ==
    /\ pc = "finally"
    /\ \E oserror \in BOOLEAN :
         /\ unlinkLog' = Append(unlinkLog, IF oserror THEN "OSError" ELSE "ok")
         /\ tmpExists' = oserror
         /\ exc' = AfterFinally(exc, oserror)
         /\ pc' = IF AfterFinally(exc, oserror) = "none" THEN "return" ELSE "except"
    /\ UNCHANGED << event, ev, cfgFile, config, exitCode, stderrFails, stderrLines, debugWrites,
                    resolved, message, transcriptReads, tmpCreated,
                    synth, synthCalls, play, playCalls, mciOpen >>
    /\ UNCHANGED truncVars
    /\ UNCHANGED sumVars

\* main() returns and the interpreter exits
MainReturns ==
    /\ pc = "return"
    /\ exitCode' \in ExitStatus(FALSE, stderrFails)
    /\ pc' = "exited"
    /\ UNCHANGED << event, ev, cfgFile, config, exc, stderrFails, stderrLines,
                    debugWrites, resolved, message, transcriptReads, tmpCreated,
                    tmpExists, unlinkLog, synth, synthCalls, play, playCalls, mciOpen >>
    /\ UNCHANGED truncVars
    /\ UNCHANGED sumVars

\* except Exception as e: print(f"claudevoice error: {e}", file=sys.stderr); sys.exit(0)
TopLevelExcept ==
    /\ pc = "except"
    /\ stderrLines' = IF stderrFails THEN stderrLines
                      ELSE Append(stderrLines, "claudevoice error")
    /\ exitCode' \in ExitStatus(TRUE, stderrFails)
    /\ pc' = "exited"
    /\ UNCHANGED << event, ev, cfgFile, config, exc, stderrFails, debugWrites,
                    resolved, message, transcriptReads, tmpCreated, tmpExists, unlinkLog,
                    synth, synthCalls, play, playCalls, mciOpen >>
    /\ UNCHANGED truncVars
    /\ UNCHANGED sumVars

Next ==
    \/ ReadStdin
    \/ LoadConfig
    \/ DebugLog
    \/ CheckEnabled
    \/ Resolve
    \/ ImportEdgeTts
    \/ CreateTmp
    \/ StartSynth
    \/ FinishSynth
    \/ MciCloseAll
    \/ MciOpen
    \/ MciPlayWait
    \/ MciClose
    \/ Unlink
    \/ MainReturns
    \/ TopLevelExcept

Spec == MainInit /\ [][Next]_vars

(***************************************************************************)
(* Properties.                                                             *)
(***************************************************************************)
Spoke == synthCalls > 0 \/ playCalls > 0 \/ tmpCreated > 0
Silent == synthCalls = 0 /\ playCalls = 0 /\ tmpCreated = 0
Loaded == config.k = "map"

\* C1: every invocation ends with exit code 0, on the normal path and on every
\* error path (malformed stdin, config load error, synthesis error, playback
\* error): no exit code other than 0 is ever set, and a process that has exited
\* (normally or through the top-level handler) has exit code 0.
C1_ExitCodeZero ==
    /\ exitCode \in {-1, 0}
    /\ pc = "exited" <=> exitCode = 0

\* C2: an invocation that reaches synthesis has created exactly one temporary
\* file; once control has left synthesis+playback one deletion of it has been
\* attempted, whatever the path; and the deletion's outcome does not change the
\* path's outcome: a synthesis error leaves as that error, a playback error as
\* that error, an error of the synthesizer's constructor as that error, a
\* success with no exception in flight.
C2_TempFileDeleted ==
    /\ tmpCreated <= 1
    /\ synthCalls > 0 => tmpCreated = 1
    /\ Len(unlinkLog) <= tmpCreated
    /\ (tmpCreated = 1 /\ pc \in {"return", "except", "exited"}) => Len(unlinkLog) = 1
    /\ Len(unlinkLog) = 1 =>
          exc = IF synth = "failed" THEN "SynthError"
                ELSE IF play = "failed" THEN "RuntimeError"
                ELSE IF synth = "idle" THEN "ValueError"
                ELSE "none"

C2_Witness ==
    /\ pc = "exited"
    /\ unlinkLog = << "OSError" >>
    /\ tmpExists
    /\ play = "failed"
    /\ exc = "RuntimeError"

\* C3: synthesis, playback and the temporary file happen only when the enabled
\* flag is true (or left to its default) and the resolver returned a message;
\* with the flag false the resolver is not called, nothing is spoken and the
\* invocation ends without error; the same when the resolver returns None.
C3_SpeakOnlyWhenEnabledAndResolved ==
    /\ Spoke => /\ Loaded
                /\ config.enabled \in {Absent, Bool(TRUE)}
                /\ resolved = "returned"
                /\ message.k = "str"
    /\ (Loaded /\ config.enabled = Bool(FALSE)) =>
          /\ resolved = "no"
          /\ transcriptReads = 0
          /\ Silent
          /\ exc = "none"
          /\ pc \notin {"resolve", "except"}
    /\ (resolved = "returned" /\ message = None) =>
          /\ Silent
          /\ exc = "none"
          /\ pc \in {"return", "exited"}

C3_Witness ==
    /\ pc = "exited"
    /\ Loaded
    /\ config.enabled = Bool(FALSE)
    /\ ev.hook_event_name = "Notification"
    /\ ev.message = Str(<< "h", "i" >>)
    /\ exitCode = 0

\* C4: resolve_message never raises, whatever the event mapping and the
\* configuration (here: any whose "messages" entry, if present, is a mapping):
\* it returns a string or None.
C4_ResolverNeverRaises ==
    (event.k = "map" /\ Loaded /\ config.messages.k # "nonmap") =>
        /\ resolved # "raised"
        /\ resolved = "returned" => message.k \in {"str", "none"}

\* C6: on every failure to read config.json, load_config returns the built-in
\* default mapping and prints exactly one diagnostic line.
C6_LoaderNeverRaises ==
    cfgFile \notin {"unread", "ok"} =>
        /\ config = DEFAULT_CONFIG
        /\ Len(SelectSeq(stderrLines, LAMBDA l : l = "Config error, using defaults")) = 1

\* C8: for a Stop event whose stop_hook_active flag is true, under any
\* configuration, the resolver returns None without reading the transcript
\* log, nothing is synthesized or played, and the invocation ends without
\* error.
C8_ActiveStopIsSilent ==
    (event.k = "map" /\ ev.hook_event_name = "Stop" /\ ev.stop_hook_active = Bool(TRUE)) =>
        /\ transcriptReads = 0
        /\ Silent
        /\ resolved # "raised"
        /\ resolved = "returned" => message = None
        /\ Loaded => exc = "none"
        /\ (Loaded /\ pc = "exited") =>
              /\ exitCode = 0
              /\ \A i \in 1..Len(stderrLines) : stderrLines[i] # "claudevoice error"
              /\ config.enabled \in {Absent, Bool(TRUE)} => resolved = "returned"

C8_Witness ==
    /\ pc = "exited"
    /\ ev.hook_event_name = "Stop"
    /\ ev.stop_hook_active = Bool(TRUE)
    /\ ev.transcript_summary = Absent
    /\ ev.transcript_path = Str(<< "p" >>)
    /\ resolved = "returned"
    /\ message = None

\* C10: the synthesizer is called at most once and the player at most once;
\* the player is called only after the synthesizer has succeeded; and the
\* process has not exited while a synthesis or a playback is under way.
C10_AtMostOnceInOrder ==
    /\ synthCalls <= 1
    /\ playCalls <= 1
    /\ playCalls > 0 => synth = "ok"
    /\ play # "idle" => playCalls = 1
    /\ synth # "idle" => synthCalls = 1
    /\ pc \in {"return", "except", "exited"} => synth # "running" /\ play # "playing"

C10_Witness ==
    /\ pc = "exited"
    /\ synth = "ok"
    /\ play = "finished"
    /\ synthCalls = 1
    /\ playCalls = 1

\* C7: under the default maximum of 200 (and under any maximum) a text within
\* the maximum is returned unchanged, and no result is longer than the maximum
\* plus one: 201 characters.
C7_TruncateCap ==
    tDone =>
        /\ Len(tText) <= tMax => tOut = tText
        /\ Len(tOut) <= tMax + 1
        /\ tMax = MAX_MESSAGE_LENGTH => Len(tOut) <= 201

C7_Witness ==
    /\ tDone
    /\ tMax = MAX_MESSAGE_LENGTH
    /\ Len(tText) > 200
    /\ Len(tOut) = 201
    /\ tOut[201] = "."

\* C5: _extract_summary never raises: it returns a string, the empty one when
\* reading or parsing failed or no assistant text was captured.
C5_SummarizerNeverRaises ==
    sDone =>
        /\ sOut.raised = "none"
        /\ sOut.ret.k = "str"
        /\ (ScanFile(sFile).raised # "none" \/ ~Truthy(ScanFile(sFile).ret)) =>
              sOut.ret = Str(<< >>)

\* C9: the last non-empty line of the captured text is returned unchanged when
\* it is at most 150 characters long; a longer one is cut just after its first
\* period if that comes before position 150, else to its first 150 characters.
C9_CapOnlyLongLines ==
    LET scan == ScanFile(sFile)
        line == Snippet(scan.ret.s)
        period == find(line, ".")
    IN  (sDone /\ scan.raised = "none" /\ scan.ret.k = "str" /\ scan.ret.s # << >>) =>
            /\ sOut.raised = "none"
            /\ sOut.ret.s = IF Len(line) <= 150 THEN line
                            ELSE IF 0 <= period /\ period < 150
                            THEN SubSeq(line, 1, period + 1)
                            ELSE SubSeq(line, 1, 150)

====
